---- MODULE Spec2Model ----
(***************************************************************************)
(* The GPU telemetry route handler of ui/src/app/api/gpu/route.ts: one GET  *)
(* request probes for nvidia-smi, queries it, and on darwin inspects the   *)
(* host through sysctl, vm_stat and system_profiler.  Every execAsync call *)
(* is two steps (issue, completion); the tool's outcome and output are     *)
(* chosen when it completes.  Text is a sequence of one-character strings; *)
(* a JavaScript value is a record tagged by k: a finite number, NaN,       *)
(* Infinity, or a string.                                                  *)
(***************************************************************************)
EXTENDS Integers, Sequences, FiniteSets, TLC

\* ------------------------------------------------------------ bounds
\* Requests served one after the other in a behaviour.
MaxRuns == 2
\* Lines (GPUs) in one nvidia-smi --query-gpu output.
MaxGpus == 2

\* ------------------------------------------------------------ JavaScript values
Num(n) == [k |-> "num", n |-> n]
Float(n, frac) == [k |-> "num", n |-> n, frac |-> frac]
NaN == [k |-> "NaN"]
Undefined == [k |-> "undefined"]
Infinity == [k |-> "Infinity"]
Str(s) == [k |-> "str", s |-> s]
\* the marker the route uses for a value the platform does not expose
NA == Str(<<"N", "/", "A">>)
\* typeof v === 'number'
IsNumberType(v) == v.k \in {"num", "NaN", "Infinity"}
\* a number that is neither NaN nor infinite
IsFinite(v) == v.k = "num"

\* Math.round(a / b) for a >= 0, b > 0: the nearest integer, halves upwards
RoundDiv(a, b) == (a \div b) + (IF 2 * (a % b) >= b THEN 1 ELSE 0)

\* ------------------------------------------------------------ text
WhiteSpace == {" ", "\n", "\t", "\r"}
Digits == {"0", "1", "2", "3", "4", "5", "6", "7", "8", "9"}
DigitVal(c) ==
  CASE c = "0" -> 0 [] c = "1" -> 1 [] c = "2" -> 2 [] c = "3" -> 3 [] c = "4" -> 4
    [] c = "5" -> 5 [] c = "6" -> 6 [] c = "7" -> 7 [] c = "8" -> 8 [] c = "9" -> 9

SetMin(S) == CHOOSE x \in S : \A y \in S : x <= y
SetMax(S) == CHOOSE x \in S : \A y \in S : x >= y

\* the indices of s that hold no white space
Inked(s) == {i \in 1..Len(s) : s[i] \notin WhiteSpace}
\* String.prototype.trimStart
TrimStart(s) == IF Inked(s) = {} THEN <<>> ELSE SubSeq(s, SetMin(Inked(s)), Len(s))
\* String.prototype.trim
Trim(s) == IF Inked(s) = {} THEN <<>> ELSE SubSeq(s, SetMin(Inked(s)), SetMax(Inked(s)))

\* s has pat at index i
HasAt(s, pat, i) == i + Len(pat) - 1 <= Len(s) /\ SubSeq(s, i, i + Len(pat) - 1) = pat
\* String.prototype.includes
Includes(s, pat) == \E i \in 1..(Len(s) + 1) : HasAt(s, pat, i)

\* String.prototype.split with a separator that cannot overlap itself: the
\* pieces between the occurrences of sep, in order
Split(s, sep) ==
  LET at == {i \in 1..Len(s) : HasAt(s, sep, i)}
      nth(k) == CHOOSE p \in at : Cardinality({q \in at : q < p}) = k - 1
      from(k) == IF k = 1 THEN 1 ELSE nth(k - 1) + Len(sep)
      to(k) == IF k = Cardinality(at) + 1 THEN Len(s) ELSE nth(k) - 1
  IN [k \in 1..(Cardinality(at) + 1) |-> SubSeq(s, from(k), to(k))]

\* the length of the longest run of characters of cs that starts at index i
RunLen(s, i, cs) ==
  LET stop == {j \in i..Len(s) : s[j] \notin cs}
  IN IF stop # {} THEN SetMin(stop) - i
     ELSE IF i <= Len(s) THEN Len(s) - i + 1 ELSE 0

RECURSIVE DigitsValue(_, _)
DigitsValue(s, acc) ==
  IF s = <<>> THEN acc ELSE DigitsValue(Tail(s), acc * 10 + DigitVal(Head(s)))

\* the global parseInt(string): leading white space, a sign, then the longest
\* run of decimal digits; NaN when there is no digit
parseInt(s) ==
  LET t == TrimStart(s)
      signed == t # <<>> /\ Head(t) \in {"+", "-"}
      u == IF signed THEN Tail(t) ELSE t
      n == RunLen(u, 1, Digits)
      v == DigitsValue(SubSeq(u, 1, n), 0)
  IN IF n = 0 THEN NaN
     ELSE IF signed /\ Head(t) = "-" THEN Num(0 - v) ELSE Num(v)

RECURSIVE StripZeros(_)
StripZeros(s) ==
  IF s # <<>> /\ s[Len(s)] = "0" THEN StripZeros(SubSeq(s, 1, Len(s) - 1)) ELSE s
\* the global parseFloat(string) on unsigned decimal text: the integer part and
\* the fraction digits that follow a point, kept exactly
parseFloat(s) ==
  LET t == TrimStart(s)
      n == RunLen(t, 1, Digits)
      point == n + 1 <= Len(t) /\ t[n + 1] = "."
      m == IF point THEN RunLen(t, n + 2, Digits) ELSE 0
      frac == StripZeros(SubSeq(t, n + 2, n + 1 + m))
      int == DigitsValue(SubSeq(t, 1, n), 0)
  IN IF n = 0 /\ m = 0 THEN NaN
     ELSE IF frac = <<>> THEN Num(int) ELSE Float(int, frac)

\* text.match(/<label>\s+(\d+)/) : <<>> when the pattern matches nowhere (null),
\* else the one-element list of the digits captured by the leftmost match
MatchAt(text, label, i) ==
  /\ HasAt(text, label, i)
  /\ RunLen(text, i + Len(label), WhiteSpace) >= 1
  /\ RunLen(text, i + Len(label) + RunLen(text, i + Len(label), WhiteSpace), Digits) >= 1
MatchGroup(text, label) ==
  IF \E i \in 1..Len(text) : MatchAt(text, label, i)
  THEN LET i == CHOOSE j \in 1..Len(text) :
                  MatchAt(text, label, j) /\ \A h \in 1..(j - 1) : ~MatchAt(text, label, h)
           d == i + Len(label) + RunLen(text, i + Len(label), WhiteSpace)
       IN <<SubSeq(text, d, d + RunLen(text, d, Digits) - 1)>>
  ELSE <<>>
\* parseInt(text.match(...)?.[1] || '0')
PageCount(text, label) ==
  LET m == MatchGroup(text, label) IN parseInt(IF m = <<>> THEN <<"0">> ELSE m[1])

\* ------------------------------------------------------------ tool outputs
\* 'Apple M', the text getMpsInfo looks for in the brand string
AppleM ==
  <<"A", "p", "p", "l", "e", " ", "M">>

\* outputs of sysctl -n machdep.cpu.brand_string
BrandAppleM2Pro ==
  <<"A", "p", "p", "l", "e", " ", "M", "2", " ", "P", "r", "o", "\n">>
BrandIntel ==
  <<"I", "n", "t", "e", "l", " ", "C", "o", "r", "e", " ", "i", "9", "\n">>
BrandRosetta ==
  <<"V", "i", "r", "t", "u", "a", "l", "A", "p", "p", "l", "e", " ", "@", " ", "2", ".", "5", "0", "G", "H", "z", " ", "p", "r", "o", "c", "e", "s", "s", "o", "r", "\n">>
BrandInfix ==
  <<"V", "i", "r", "t", "u", "a", "l", " ", "A", "p", "p", "l", "e", " ", "M", "1", "\n">>

\* outputs of sysctl -n hw.memsize: 1 GiB, 1.5 GiB, just under 0.5 GiB, not a number
MemSize1GiB ==
  <<"1", "0", "7", "3", "7", "4", "1", "8", "2", "4", "\n">>
MemSize1p5GiB ==
  <<"1", "6", "1", "0", "6", "1", "2", "7", "3", "6", "\n">>
MemSizeTiny ==
  <<"5", "3", "6", "8", "7", "0", "9", "1", "1", "\n">>
MemSizeGarbled ==
  <<"u", "n", "k", "n", "o", "w", "n", "\n">>

\* the labels of the four vm_stat patterns
LabelActive ==
  <<"P", "a", "g", "e", "s", " ", "a", "c", "t", "i", "v", "e", ":">>
LabelWired ==
  <<"P", "a", "g", "e", "s", " ", "w", "i", "r", "e", "d", " ", "d", "o", "w", "n", ":">>
LabelInactive ==
  <<"P", "a", "g", "e", "s", " ", "i", "n", "a", "c", "t", "i", "v", "e", ":">>
LabelFree ==
  <<"P", "a", "g", "e", "s", " ", "f", "r", "e", "e", ":">>

\* outputs of vm_stat
VmStatFull ==
  <<"P", "a", "g", "e", "s", " ", "f", "r", "e", "e", ":", " ", " ", " ", "2", "5", "6", "0", "0", ".", "\n", "P", "a", "g", "e", "s", " ", "a", "c", "t", "i", "v", "e", ":", " ", " ", "6", "5", "5", "3", "6", ".", "\n", "P", "a", "g", "e", "s", " ", "i", "n", "a", "c", "t", "i", "v", "e", ":", " ", "1", "0", "0", ".", "\n", "P", "a", "g", "e", "s", " ", "w", "i", "r", "e", "d", " ", "d", "o", "w", "n", ":", " ", "3", "2", "7", "6", "8", ".", "\n">>
VmStatPartial ==
  <<"P", "a", "g", "e", "s", " ", "a", "c", "t", "i", "v", "e", ":", " ", "5", "1", "2", "0", "0", ".", "\n">>
VmStatIdle ==
  <<"P", "a", "g", "e", "s", " ", "f", "r", "e", "e", ":", " ", "1", "0", "2", "4", ".", "\n">>

\* outputs of system_profiler SPDisplaysDataType | grep "Total Number of Cores"
CoresTen ==
  <<" ", " ", " ", " ", " ", " ", "T", "o", "t", "a", "l", " ", "N", "u", "m", "b", "e", "r", " ", "o", "f", " ", "C", "o", "r", "e", "s", ":", " ", "1", "0", "\n">>
CoresUnknown ==
  <<" ", " ", " ", " ", " ", " ", "T", "o", "t", "a", "l", " ", "N", "u", "m", "b", "e", "r", " ", "o", "f", " ", "C", "o", "r", "e", "s", ":", " ", "u", "n", "k", "n", "o", "w", "n", "\n">>
CoresNoColon ==
  <<" ", " ", " ", " ", " ", " ", "T", "o", "t", "a", "l", " ", "N", "u", "m", "b", "e", "r", " ", "o", "f", " ", "C", "o", "r", "e", "s", " ", "1", "0", "\n">>

\* lines of nvidia-smi --query-gpu output
LineTestGpu ==
  <<"0", ",", " ", "T", "e", "s", "t", " ", "G", "P", "U", ",", " ", "5", "2", "5", ".", "6", "0", ",", " ", "4", "5", ",", " ", "1", "0", ",", " ", "5", ",", " ", "8", "1", "9", "2", ",", " ", "6", "0", "0", "0", ",", " ", "2", "1", "9", "2", ",", " ", "5", "0", ".", "5", ",", " ", "1", "5", "0", ".", "0", ",", " ", "1", "5", "0", "0", ",", " ", "7", "0", "0", "0", ",", " ", "3", "0">>
LineNoFan ==
  <<"1", ",", " ", "G", "P", "U", " ", "B", ",", " ", "5", "2", "5", ".", "6", "0", ",", " ", "5", "0", ",", " ", "0", ",", " ", "0", ",", " ", "8", "1", "9", "2", ",", " ", "8", "1", "9", "2", ",", " ", "0", ",", " ", "2", "0", ".", "0", ",", " ", "1", "5", "0", ".", "0", ",", " ", "3", "0", "0", ",", " ", "4", "0", "5", ",", " ">>

\* the name of the Apple Silicon record
AppleSiliconGpu ==
  <<"A", "p", "p", "l", "e", " ", "S", "i", "l", "i", "c", "o", "n", " ", "G", "P", "U">>

\* 'Failed to fetch GPU stats: ', the prefix of the error field
ErrorPrefix ==
  <<"F", "a", "i", "l", "e", "d", " ", "t", "o", " ", "f", "e", "t", "c", "h", " ", "G", "P", "U", " ", "s", "t", "a", "t", "s", ":", " ">>
\* messages of the error execAsync rejects with
CommandFailed ==
  <<"C", "o", "m", "m", "a", "n", "d", " ", "f", "a", "i", "l", "e", "d">>

Platforms == {"linux", "darwin", "win32"}
BrandOutputs == {BrandAppleM2Pro, BrandIntel, BrandRosetta, BrandInfix, <<>>}
MemSizeOutputs == {MemSize1GiB, MemSize1p5GiB, MemSizeTiny, MemSizeGarbled}
VmStatOutputs == {VmStatFull, VmStatPartial, VmStatIdle, <<>>}
CoresOutputs == {CoresTen, CoresUnknown, CoresNoColon}
QueryLines == {LineTestGpu, LineNoFan}
ErrorMessages == {CommandFailed, <<>>}

RECURSIVE JoinLines(_)
JoinLines(ls) == IF ls = <<>> THEN <<>> ELSE Head(ls) \o <<"\n">> \o JoinLines(Tail(ls))
\* nvidia-smi prints one line per GPU
QueryOutputs ==
  {JoinLines(ls) : ls \in UNION {[1..n -> QueryLines] : n \in 1..MaxGpus}}

\* the commands handed to execAsync
CmdWhich == "which nvidia-smi"
CmdList == "nvidia-smi -L"
CmdQuery == "nvidia-smi --query-gpu"
CmdBrand == "sysctl -n machdep.cpu.brand_string"
CmdMemSize == "sysctl -n hw.memsize"
CmdVmStat == "vm_stat"
CmdCores == "system_profiler SPDisplaysDataType | grep"
ProbeCmds == {CmdWhich, CmdList}
VendorACmds == {CmdWhich, CmdList, CmdQuery}
VendorBCmds == {CmdBrand, CmdMemSize, CmdVmStat, CmdCores}

\* ------------------------------------------------------------ state
VARIABLES
  platform,       \* os.platform()
  pc,             \* where the request is
  hasNvidiaSmi,   \* GET's locals
  hasMps,
  gpus,
  stdout,         \* getMpsInfo's locals: the brand string,
  totalMemoryGB,  \*   the rounded memory size,
  usedMemoryMB,   \*   and the vm_stat figures
  freeMemoryMB,
  thrown,         \* the error that reached GET's try block, if any
  outstanding,    \* execAsync calls issued and not yet settled
  log,            \* the issue and completion of every execAsync call of the request
  response,       \* what GET returned
  runs            \* requests started

vars == <<platform, pc, hasNvidiaSmi, hasMps, gpus, stdout, totalMemoryGB, usedMemoryMB,
          freeMemoryMB, thrown, outstanding, log, response, runs>>

isWindows == platform = "win32"
isMac == platform = "darwin"

NoResponse == [status |-> 0]
NoThrow == [k |-> "none"]
Thrown(msg) == [k |-> "error", message |-> msg]

\* GET's entry: the declarations of lines 11-17
Entry ==
  /\ pc = "checkNvidiaSmi"
  /\ hasNvidiaSmi = FALSE
  /\ hasMps = FALSE
  /\ gpus = <<>>
  /\ stdout = <<>>
  /\ totalMemoryGB = Undefined
  /\ usedMemoryMB = Undefined
  /\ freeMemoryMB = Undefined
  /\ thrown = NoThrow
  /\ outstanding = 0
  /\ log = <<>>
  /\ response = NoResponse

Init ==
  /\ platform \in Platforms
  /\ runs = 1
  /\ Entry

\* ------------------------------------------------------------ execAsync
Issue(cmd) ==
  /\ outstanding' = outstanding + 1
  /\ log' = Append(log, [ev |-> "issue", cmd |-> cmd])

Settle(cmd, ok) ==
  /\ outstanding' = outstanding - 1
  /\ log' = Append(log, [ev |-> "done", cmd |-> cmd, ok |-> ok])

ProbeCmd == IF isWindows THEN CmdList ELSE CmdWhich
\* a variant that attempts the Apple Silicon detection on every platform
AfterVendorA_AnyPlatform == "getMpsInfo"

\* ------------------------------------------------------------ checkNvidiaSmi
\* where GET goes once the NVIDIA part is over
AfterVendorA == IF isMac THEN "getMpsInfo" ELSE "respond"
\* a variant that runs the query whatever the probe answered
AfterProbe_AlwaysQuery(found) == "getGpuStats"

\* where GET goes with checkNvidiaSmi's answer
AfterProbe(found) == IF found THEN "getGpuStats" ELSE AfterVendorA

CheckNvidiaSmiIssue ==
  /\ pc = "checkNvidiaSmi"
  /\ Issue(ProbeCmd)
  /\ pc' = "checkNvidiaSmi_await"
  /\ UNCHANGED <<platform, hasNvidiaSmi, hasMps, gpus, stdout, totalMemoryGB, usedMemoryMB,
                 freeMemoryMB, thrown, response, runs>>

\* the probe ran: return true
CheckNvidiaSmiFound ==
  /\ pc = "checkNvidiaSmi_await"
  /\ Settle(ProbeCmd, TRUE)
  /\ hasNvidiaSmi' = TRUE
  /\ pc' = AfterProbe(TRUE)
  /\ UNCHANGED <<platform, hasMps, gpus, stdout, totalMemoryGB, usedMemoryMB,
                 freeMemoryMB, thrown, response, runs>>

\* the probe failed: the catch returns false
CheckNvidiaSmiMissing ==
  /\ pc = "checkNvidiaSmi_await"
  /\ Settle(ProbeCmd, FALSE)
  /\ hasNvidiaSmi' = FALSE
  /\ pc' = AfterProbe(FALSE)
  /\ UNCHANGED <<platform, hasMps, gpus, stdout, totalMemoryGB, usedMemoryMB,
                 freeMemoryMB, thrown, response, runs>>

\* ------------------------------------------------------------ getGpuStats
FieldText(f, i) == IF i <= Len(f) THEN Str(f[i]) ELSE Undefined
FieldInt(f, i) == IF i <= Len(f) THEN parseInt(f[i]) ELSE NaN
FieldFloat(f, i) == IF i <= Len(f) THEN parseFloat(f[i]) ELSE NaN
\* v || 0
OrZero(v) == IF v = NaN \/ v = Num(0) THEN Num(0) ELSE v

\* one line of the CSV output as a record
ParseGpuLine(line) ==
  LET raw == Split(line, <<",", " ">>)
      f == [i \in 1..Len(raw) |-> Trim(raw[i])]
  IN [index |-> FieldInt(f, 1),
      name |-> FieldText(f, 2),
      driverVersion |-> FieldText(f, 3),
      temperature |-> FieldInt(f, 4),
      utilization |-> [gpu |-> FieldInt(f, 5), memory |-> FieldInt(f, 6)],
      memory |-> [total |-> FieldInt(f, 7), free |-> FieldInt(f, 8), used |-> FieldInt(f, 9)],
      power |-> [draw |-> FieldFloat(f, 10), limit |-> FieldFloat(f, 11)],
      clocks |-> [graphics |-> FieldInt(f, 12), memory |-> FieldInt(f, 13)],
      fan |-> [speed |-> OrZero(FieldInt(f, 14))]]

ParseGpuStats(out) ==
  LET lines == Split(Trim(out), <<"\n">>)
  IN [i \in 1..Len(lines) |-> ParseGpuLine(lines[i])]

\* { ...gpu, type: 'cuda' }
TagCuda(gs) == [i \in 1..Len(gs) |-> gs[i] @@ [type |-> "cuda"]]

GetGpuStatsIssue ==
  /\ pc = "getGpuStats"
  /\ Issue(CmdQuery)
  /\ pc' = "getGpuStats_await"
  /\ UNCHANGED <<platform, hasNvidiaSmi, hasMps, gpus, stdout, totalMemoryGB, usedMemoryMB,
                 freeMemoryMB, thrown, response, runs>>

GetGpuStatsDone ==
  /\ pc = "getGpuStats_await"
  /\ Settle(CmdQuery, TRUE)
  /\ \E out \in QueryOutputs : gpus' = gpus \o TagCuda(ParseGpuStats(out))
  /\ pc' = AfterVendorA
  /\ UNCHANGED <<platform, hasNvidiaSmi, hasMps, stdout, totalMemoryGB, usedMemoryMB,
                 freeMemoryMB, thrown, response, runs>>

\* the query rejects: nothing in getGpuStats catches it, GET's try block does
GetGpuStatsFailed ==
  /\ pc = "getGpuStats_await"
  /\ Settle(CmdQuery, FALSE)
  /\ \E msg \in ErrorMessages : thrown' = Thrown(msg)
  /\ pc' = "catch"
  /\ UNCHANGED <<platform, hasNvidiaSmi, hasMps, gpus, stdout, totalMemoryGB, usedMemoryMB,
                 freeMemoryMB, response, runs>>

\* ------------------------------------------------------------ getMpsInfo
pageSize == 4096
\* a variant that looks for 'Apple' alone
IsAppleSilicon_AppleOnly(brand) == Includes(brand, SubSeq(AppleM, 1, 5))

\* stdout.includes('Apple M')
IsAppleSilicon(brand) == Includes(brand, AppleM)

\* Math.round(totalMemoryBytes / (1024 * 1024 * 1024))
RoundGB(bytes) == IF IsFinite(bytes) THEN Num(RoundDiv(bytes.n, 1024 * 1024 * 1024)) ELSE bytes

\* Math.round((pages * pageSize) / (1024 * 1024))
PagesToMB(pages) == Num(RoundDiv(pages * pageSize, 1024 * 1024))

\* totalMemoryGB * 1024
TotalMB(gb) == IF IsFinite(gb) THEN Num(gb.n * 1024) ELSE gb

\* Math.round((used / (gb * 1024)) * 100) in floating point: a division by zero
\* is Infinity, 0 / 0 and anything with NaN is NaN
MemoryPercent(used, gb) ==
  IF ~IsFinite(gb) THEN NaN
  ELSE IF gb.n = 0 THEN (IF used.n = 0 THEN NaN ELSE Infinity)
  ELSE Num(RoundDiv(used.n * 100, gb.n * 1024))

\* the utilization.memory expression of both record literals
MemoryUtilization(used, gb) ==
  IF IsNumberType(used) /\ IsNumberType(gb) THEN MemoryPercent(used, gb) ELSE NA

\* the record of the try branch (lines 178-207)
MpsRecordWithCores(gpuCoreCount) ==
  [index |-> Num(0),
   name |-> Str(AppleSiliconGpu),
   type |-> "mps",
   model |-> Str(Trim(stdout)),
   cores |-> gpuCoreCount,
   memory |-> [total |-> TotalMB(totalMemoryGB), used |-> usedMemoryMB, free |-> freeMemoryMB],
   utilization |-> [gpu |-> NA, memory |-> MemoryUtilization(usedMemoryMB, totalMemoryGB)],
   temperature |-> NA,
   power |-> [draw |-> NA, limit |-> NA],
   clocks |-> [graphics |-> NA, memory |-> NA],
   fan |-> [speed |-> NA]]

\* the record of the catch branch (lines 210-238)
MpsRecordFallback ==
  [index |-> Num(0),
   name |-> Str(AppleSiliconGpu),
   type |-> "mps",
   model |-> Str(Trim(stdout)),
   memory |-> [total |-> TotalMB(totalMemoryGB), used |-> usedMemoryMB, free |-> freeMemoryMB],
   utilization |-> [gpu |-> NA, memory |-> MemoryUtilization(usedMemoryMB, totalMemoryGB)],
   temperature |-> NA,
   power |-> [draw |-> NA, limit |-> NA],
   clocks |-> [graphics |-> NA, memory |-> NA],
   fan |-> [speed |-> NA]]

\* what the core-count try block yields for the tool's output:
\* gpuCores.split(':')[1].trim() throws when there is no colon
CoresRecord(out) ==
  LET parts == Split(out, <<":">>)
  IN IF Len(parts) < 2 THEN MpsRecordFallback
     ELSE MpsRecordWithCores(parseInt(Trim(parts[2])))
\* a variant that raises the flag before looking at what getMpsInfo returned
ReturnNull_FlagRaised ==
  /\ pc' = "respond"
  /\ hasMps' = TRUE
  /\ UNCHANGED gpus

\* getMpsInfo returned null: GET keeps hasMps and gpus
ReturnNull ==
  /\ pc' = "respond"
  /\ UNCHANGED <<hasMps, gpus>>

\* getMpsInfo returned a record: hasMps = true; gpus.push(mpsInfo)
ReturnRecord(rec) ==
  /\ pc' = "respond"
  /\ hasMps' = TRUE
  /\ gpus' = Append(gpus, rec)
\* a variant whose vm_stat failure reaches the outer catch: return null
AfterVmStatError_GiveUp == "respond"

\* a variant that asks vm_stat again after a failure
AfterVmStatError_Retry == "vm_stat"

\* where getMpsInfo goes when vm_stat rejects: its inner catch only logs
AfterVmStatError == "cores"

BrandIssue ==
  /\ pc = "getMpsInfo"
  /\ Issue(CmdBrand)
  /\ pc' = "brand_await"
  /\ UNCHANGED <<platform, hasNvidiaSmi, hasMps, gpus, stdout, totalMemoryGB, usedMemoryMB,
                 freeMemoryMB, thrown, response, runs>>

BrandDone ==
  /\ pc = "brand_await"
  /\ Settle(CmdBrand, TRUE)
  /\ \E out \in BrandOutputs :
       /\ stdout' = out
       /\ IF IsAppleSilicon(out)
            THEN pc' = "memsize" /\ UNCHANGED <<hasMps, gpus>>
            ELSE ReturnNull
  /\ UNCHANGED <<platform, hasNvidiaSmi, totalMemoryGB, usedMemoryMB, freeMemoryMB, thrown,
                 response, runs>>

\* the outer catch of getMpsInfo: return null
BrandFailed ==
  /\ pc = "brand_await"
  /\ Settle(CmdBrand, FALSE)
  /\ ReturnNull
  /\ UNCHANGED <<platform, hasNvidiaSmi, stdout, totalMemoryGB, usedMemoryMB, freeMemoryMB,
                 thrown, response, runs>>

MemSizeIssue ==
  /\ pc = "memsize"
  /\ Issue(CmdMemSize)
  /\ pc' = "memsize_await"
  /\ UNCHANGED <<platform, hasNvidiaSmi, hasMps, gpus, stdout, totalMemoryGB, usedMemoryMB,
                 freeMemoryMB, thrown, response, runs>>

MemSizeDone ==
  /\ pc = "memsize_await"
  /\ Settle(CmdMemSize, TRUE)
  /\ \E memInfo \in MemSizeOutputs : totalMemoryGB' = RoundGB(parseInt(Trim(memInfo)))
  /\ usedMemoryMB' = NA
  /\ freeMemoryMB' = NA
  /\ pc' = "vm_stat"
  /\ UNCHANGED <<platform, hasNvidiaSmi, hasMps, gpus, stdout, thrown, response, runs>>

MemSizeFailed ==
  /\ pc = "memsize_await"
  /\ Settle(CmdMemSize, FALSE)
  /\ ReturnNull
  /\ UNCHANGED <<platform, hasNvidiaSmi, stdout, totalMemoryGB, usedMemoryMB, freeMemoryMB,
                 thrown, response, runs>>

VmStatIssue ==
  /\ pc = "vm_stat"
  /\ Issue(CmdVmStat)
  /\ pc' = "vm_stat_await"
  /\ UNCHANGED <<platform, hasNvidiaSmi, hasMps, gpus, stdout, totalMemoryGB, usedMemoryMB,
                 freeMemoryMB, thrown, response, runs>>

VmStatDone ==
  /\ pc = "vm_stat_await"
  /\ Settle(CmdVmStat, TRUE)
  /\ \E vmStat \in VmStatOutputs :
       LET pagesActive == PageCount(vmStat, LabelActive)
           pagesWired == PageCount(vmStat, LabelWired)
           pagesInactive == PageCount(vmStat, LabelInactive)
           pagesFree == PageCount(vmStat, LabelFree)
           usedPages == pagesActive.n + pagesWired.n + pagesInactive.n
       IN /\ usedMemoryMB' = PagesToMB(usedPages)
          /\ freeMemoryMB' = PagesToMB(pagesFree.n)
  /\ pc' = "cores"
  /\ UNCHANGED <<platform, hasNvidiaSmi, hasMps, gpus, stdout, totalMemoryGB, thrown,
                 response, runs>>

VmStatFailed ==
  /\ pc = "vm_stat_await"
  /\ Settle(CmdVmStat, FALSE)
  /\ pc' = AfterVmStatError
  /\ UNCHANGED <<platform, hasNvidiaSmi, hasMps, gpus, stdout, totalMemoryGB, usedMemoryMB,
                 freeMemoryMB, thrown, response, runs>>

CoresIssue ==
  /\ pc = "cores"
  /\ Issue(CmdCores)
  /\ pc' = "cores_await"
  /\ UNCHANGED <<platform, hasNvidiaSmi, hasMps, gpus, stdout, totalMemoryGB, usedMemoryMB,
                 freeMemoryMB, thrown, response, runs>>

CoresDone ==
  /\ pc = "cores_await"
  /\ Settle(CmdCores, TRUE)
  /\ \E gpuCores \in CoresOutputs : ReturnRecord(CoresRecord(gpuCores))
  /\ UNCHANGED <<platform, hasNvidiaSmi, stdout, totalMemoryGB, usedMemoryMB, freeMemoryMB,
                 thrown, response, runs>>

CoresFailed ==
  /\ pc = "cores_await"
  /\ Settle(CmdCores, FALSE)
  /\ ReturnRecord(MpsRecordFallback)
  /\ UNCHANGED <<platform, hasNvidiaSmi, stdout, totalMemoryGB, usedMemoryMB, freeMemoryMB,
                 thrown, response, runs>>

\* ------------------------------------------------------------ GET's two returns
\* NextResponse.json({ hasNvidiaSmi, hasMps, platform, gpus })
SuccessResponse ==
  [status |-> 200,
   body |-> [hasNvidiaSmi |-> hasNvidiaSmi, hasMps |-> hasMps, platform |-> platform,
             gpus |-> gpus]]
\* a variant that reports the flags and records collected before the failure
ErrorResponse_KeepsCollected ==
  [status |-> 500,
   body |-> [hasNvidiaSmi |-> hasNvidiaSmi, hasMps |-> hasMps, platform |-> platform,
             gpus |-> gpus, error |-> ErrorPrefix \o thrown.message]]

\* NextResponse.json({ ..., error: `Failed to fetch GPU stats: ${message}` }, { status: 500 })
ErrorResponse ==
  [status |-> 500,
   body |-> [hasNvidiaSmi |-> FALSE, hasMps |-> FALSE, platform |-> platform, gpus |-> <<>>,
             error |-> ErrorPrefix \o thrown.message]]

Respond ==
  /\ pc = "respond"
  /\ response' = SuccessResponse
  /\ pc' = "done"
  /\ UNCHANGED <<platform, hasNvidiaSmi, hasMps, gpus, stdout, totalMemoryGB, usedMemoryMB,
                 freeMemoryMB, thrown, outstanding, log, runs>>

Catch ==
  /\ pc = "catch"
  /\ response' = ErrorResponse
  /\ pc' = "done"
  /\ UNCHANGED <<platform, hasNvidiaSmi, hasMps, gpus, stdout, totalMemoryGB, usedMemoryMB,
                 freeMemoryMB, thrown, outstanding, log, runs>>

\* the dashboard polls again: a fresh call of GET on the same host
NewRequest ==
  /\ pc = "done"
  /\ runs < MaxRuns
  /\ runs' = runs + 1
  /\ pc' = "checkNvidiaSmi"
  /\ hasNvidiaSmi' = FALSE
  /\ hasMps' = FALSE
  /\ gpus' = <<>>
  /\ stdout' = <<>>
  /\ totalMemoryGB' = Undefined
  /\ usedMemoryMB' = Undefined
  /\ freeMemoryMB' = Undefined
  /\ thrown' = NoThrow
  /\ outstanding' = 0
  /\ log' = <<>>
  /\ response' = NoResponse
  /\ UNCHANGED platform

Next ==
  \/ CheckNvidiaSmiIssue \/ CheckNvidiaSmiFound \/ CheckNvidiaSmiMissing
  \/ GetGpuStatsIssue \/ GetGpuStatsDone \/ GetGpuStatsFailed
  \/ BrandIssue \/ BrandDone \/ BrandFailed
  \/ MemSizeIssue \/ MemSizeDone \/ MemSizeFailed
  \/ VmStatIssue \/ VmStatDone \/ VmStatFailed
  \/ CoresIssue \/ CoresDone \/ CoresFailed
  \/ Respond \/ Catch \/ NewRequest

Spec == Init /\ [][Next]_vars

\* ------------------------------------------------------------ the request's history
Issues == {i \in 1..Len(log) : log[i].ev = "issue"}
Settled == {i \in 1..Len(log) : log[i].ev = "done"}
Issued(cmds) == \E i \in Issues : log[i].cmd \in cmds
Succeeded(cmds) == \E i \in Settled : log[i].cmd \in cmds /\ log[i].ok
Failed(cmds) == \E i \in Settled : log[i].cmd \in cmds /\ ~log[i].ok
\* command c was issued only after command d had settled with outcome in oks
After(c, d, oks) ==
  \A i \in Issues : log[i].cmd = c =>
    \E j \in Settled : j < i /\ log[j].cmd = d /\ log[j].ok \in oks
Returned == pc = "done"
OfType(gs, t) == {i \in 1..Len(gs) : gs[i].type = t}
BrandMatches == Includes(stdout, AppleM)
\* s begins with pat (String.prototype.startsWith)
StartsWith(s, pat) == HasAt(s, pat, 1)

\* ------------------------------------------------------------ claims

\* C1: a failure that reaches GET's catch (the nvidia-smi query rejecting after
\* the probe succeeded) ends in a response with hasNvidiaSmi = false,
\* hasMps = false, gpus = [], a non-empty error string and status 500; every
\* request that ends has returned a response.
C1_CatchResponse ==
  /\ Failed({CmdQuery}) => thrown # NoThrow
  /\ thrown # NoThrow => pc \in {"catch", "done"}
  /\ Returned => response.status \in {200, 500}
  /\ Returned /\ thrown # NoThrow =>
       /\ response.status = 500
       /\ response.body.hasNvidiaSmi = FALSE
       /\ response.body.hasMps = FALSE
       /\ response.body.gpus = <<>>
       /\ "error" \in DOMAIN response.body
       /\ Len(response.body.error) > 0

C1_Witness ==
  Returned /\ Succeeded(ProbeCmds) /\ Failed({CmdQuery}) /\ response.status = 500

\* C2: when the capability probe fails, hasNvidiaSmi is false, no record of
\* type cuda is collected or returned, and the query command is never issued.
C2_ProbeFailed ==
  Failed(ProbeCmds) =>
    /\ hasNvidiaSmi = FALSE
    /\ OfType(gpus, "cuda") = {}
    /\ ~Issued({CmdQuery})
    /\ Returned =>
         /\ response.body.hasNvidiaSmi = FALSE
         /\ OfType(response.body.gpus, "cuda") = {}

C2_Witness ==
  Returned /\ Failed(ProbeCmds) /\ response.body.hasMps /\ Len(response.body.gpus) = 1

\* C3: off darwin, whatever the probe and the query do, hasMps is false, no
\* record of type mps is collected or returned, and sysctl, vm_stat and
\* system_profiler are never issued.
C3_NotDarwin ==
  ~isMac =>
    /\ hasMps = FALSE
    /\ OfType(gpus, "mps") = {}
    /\ ~Issued(VendorBCmds)
    /\ Returned =>
         /\ response.body.hasMps = FALSE
         /\ OfType(response.body.gpus, "mps") = {}

C3_Witness ==
  Returned /\ ~isMac /\ Succeeded({CmdQuery}) /\ Len(response.body.gpus) = 2

\* C4: with no GPU tooling (the probe fails and the platform is not darwin, or
\* the brand string does not match, or the brand or memory-size query fails)
\* the response is status 200 with both flags false, gpus = [] and no error
\* field; status 500 and the error field occur only when the catch fired.
NoTooling ==
  /\ Failed(ProbeCmds)
  /\ \/ ~isMac
     \/ Failed({CmdBrand})
     \/ Succeeded({CmdBrand}) /\ ~BrandMatches
     \/ Failed({CmdMemSize})

C4_NoGpuIsSuccess ==
  /\ Returned /\ NoTooling =>
       response = [status |-> 200,
                   body |-> [hasNvidiaSmi |-> FALSE, hasMps |-> FALSE,
                             platform |-> platform, gpus |-> <<>>]]
  /\ Returned /\ (response.status = 500 \/ "error" \in DOMAIN response.body) =>
       thrown # NoThrow

C4_Witness ==
  Returned /\ isMac /\ Failed(ProbeCmds) /\ BrandMatches /\ Failed({CmdMemSize})
    /\ response.status = 200

\* C5: on darwin with a matching brand string, a failed vm_stat still yields
\* status 200, hasMps = true and exactly one mps record, whose memory.used,
\* memory.free and utilization.memory are all 'N/A', whether or not the
\* core-count step succeeds.
C5_VmStatFailed ==
  Returned /\ isMac /\ BrandMatches /\ Failed({CmdVmStat}) =>
    /\ response.status = 200
    /\ response.body.hasMps = TRUE
    /\ Cardinality(OfType(response.body.gpus, "mps")) = 1
    /\ \A i \in OfType(response.body.gpus, "mps") :
         /\ response.body.gpus[i].memory.used = NA
         /\ response.body.gpus[i].memory.free = NA
         /\ response.body.gpus[i].utilization.memory = NA

C5_Witness ==
  Returned /\ isMac /\ Failed({CmdVmStat}) /\ Succeeded({CmdCores})
    /\ \E i \in OfType(response.body.gpus, "mps") : "cores" \in DOMAIN response.body.gpus[i]

\* C6: when the core-count step fails (the invocation fails, or no integer can
\* be parsed after the label) the mps record is returned without the cores
\* field and with every other field as in the successful case; cores is
\* present only when it holds a parsed integer.
C6_CoresOnlyWhenParsed ==
  Returned /\ response.status = 200 =>
    \A i \in OfType(response.body.gpus, "mps") :
      LET r == response.body.gpus[i]
      IN /\ Failed({CmdCores}) => "cores" \notin DOMAIN r
         /\ "cores" \in DOMAIN r => IsFinite(r.cores)
         /\ [f \in DOMAIN r \ {"cores"} |-> r[f]] = MpsRecordFallback

\* C7 as claimed: on darwin hasMps is true only if the brand string starts with
\* 'Apple M'; a brand string without that prefix gives hasMps = false, no mps
\* record, no further Vendor-B tool and no error.
C7_Original ==
  isMac /\ Succeeded({CmdBrand}) =>
    /\ hasMps => StartsWith(stdout, AppleM)
    /\ ~StartsWith(stdout, AppleM) =>
         /\ hasMps = FALSE
         /\ OfType(gpus, "mps") = {}
         /\ ~Issued({CmdMemSize, CmdVmStat, CmdCores})
         /\ Returned => response.status = 200

\* C7 as amended: on darwin hasMps is true only if the brand string contains
\* 'Apple M' (anywhere, not only as a prefix); a brand string that does not
\* contain it gives hasMps = false, no mps record, no further Vendor-B tool and
\* no error; a brand string that contains it ('Apple M2 Pro') gives
\* hasMps = true once the memory-size query succeeds.
C7_BrandContains ==
  isMac /\ Succeeded({CmdBrand}) =>
    /\ hasMps => BrandMatches
    /\ ~BrandMatches =>
         /\ hasMps = FALSE
         /\ OfType(gpus, "mps") = {}
         /\ ~Issued({CmdMemSize, CmdVmStat, CmdCores})
         /\ Returned => response.status = 200 /\ response.body.hasMps = FALSE
    /\ Returned /\ BrandMatches /\ Succeeded({CmdMemSize}) =>
         response.body.hasMps = TRUE /\ Cardinality(OfType(response.body.gpus, "mps")) = 1

C7_Witness ==
  Returned /\ isMac /\ stdout = BrandInfix /\ response.body.hasMps

\* C8 as claimed: a request makes at most three execAsync calls.
C8_Original == Cardinality(Issues) <= 3

\* C8 as amended: a request makes at most six execAsync calls on darwin (probe,
\* query, brand string, memory size, vm_stat, core count) and at most two on
\* every other platform.
C8_AtMostSix == Cardinality(Issues) <= (IF isMac THEN 6 ELSE 2)

C8_Witness ==
  Returned /\ Cardinality(Issues) = 6 /\ response.status = 200 /\ Succeeded({CmdVmStat})

\* C9: at most one execAsync call is outstanding at any time, each is awaited
\* before the next is issued, and the order is fixed: the query only after a
\* successful probe; the brand query only after the NVIDIA steps are over; the
\* memory-size, vm_stat and core-count queries in that order and only after a
\* brand query that matched; a failed vm_stat does not stop the core-count
\* query from being issued.
C9_OneAtATimeInOrder ==
  /\ outstanding \in {0, 1}
  /\ \A i \in 1..Len(log) : (log[i].ev = "issue") <=> (i % 2 = 1)
  /\ \A i \in Settled : log[i].cmd = log[i - 1].cmd
  /\ \A i \in Issues : \A j \in Issues : log[i].cmd = log[j].cmd => i = j
  /\ \A i \in Issues : log[i].cmd \in ProbeCmds => i = 1
  /\ \A i \in Issues : log[i].cmd = CmdQuery =>
       i = 3 /\ log[2].cmd \in ProbeCmds /\ log[2].ok
  /\ \A i \in Issues : log[i].cmd = CmdBrand =>
       /\ \A j \in Issues : log[j].cmd \in VendorACmds => j < i
       /\ Failed(ProbeCmds) \/ Succeeded({CmdQuery})
  /\ After(CmdMemSize, CmdBrand, {TRUE})
  /\ Issued({CmdMemSize}) => BrandMatches
  /\ After(CmdVmStat, CmdMemSize, {TRUE})
  /\ After(CmdCores, CmdVmStat, {TRUE, FALSE})
  /\ Failed({CmdVmStat}) => pc \in {"cores", "cores_await", "respond", "done"}
  /\ Failed({CmdVmStat}) /\ pc \in {"cores_await", "respond", "done"} => Issued({CmdCores})

C9_Witness ==
  Returned /\ Succeeded({CmdQuery}) /\ Failed({CmdVmStat}) /\ Failed({CmdCores})
    /\ Cardinality(Issues) = 6

\* C10: in every mps record utilization.memory is the integer
\* round(usedMB / (totalGB * 1024) * 100) when used and total memory are both
\* known numbers and 'N/A' otherwise; it is never NaN or infinite, also when
\* the memory-size output does not parse or the total rounds to 0 GB.
C10_UtilizationKnownOrNA ==
  Returned /\ response.status = 200 =>
    \A i \in OfType(response.body.gpus, "mps") :
      LET r == response.body.gpus[i]
          used == r.memory.used
          total == r.memory.total
          known == IsFinite(used) /\ IsFinite(total)
      IN /\ r.utilization.memory = NA \/ IsFinite(r.utilization.memory)
         /\ ~known => r.utilization.memory = NA
         /\ known /\ total.n > 0 =>
              r.utilization.memory = Num(RoundDiv(used.n * 100, total.n))

====
